---- MODULE Spec2Model ----
(***************************************************************************)
(* Model of the Ollama MCP server (mcp-servers/ollama-mcp/index.js): the   *)
(* OllamaClient, estimateComplexity and the CallToolRequestSchema handler. *)
(* Every tool invocation is an asynchronous task; it is suspended exactly  *)
(* at its awaited fetches, so one action is the code between two awaits.   *)
(***************************************************************************)
EXTENDS Integers, Sequences, FiniteSets, TLC

VARIABLES
    config,          \* the four configuration values read at process start
    baseUrl,         \* baseUrl of localClient and remoteClient
    up,              \* environment: is the backend reachable right now
    pc,              \* per invocation: where the handler is suspended
    request,         \* per invocation: request.params (name, arguments)
    localAvailable,  \* per invocation: result of the awaited isAvailable()
    client,          \* per invocation: the chosen client
    modelToUse,      \* per invocation: the chosen model name
    complexity,      \* per invocation: the tier estimateComplexity returned
    results,         \* per invocation: list_models / health_check accumulator
    fetches,         \* per invocation: the fetch calls issued so far
    response         \* per invocation: what the handler returned

vars == <<config, baseUrl, up, pc, request, localAvailable, client,
          modelToUse, complexity, results, fetches, response>>

----------------------------------------------------------------------------
(* Bounds of the model *)

\* number of tool invocations that may overlap
NumInv == 2

Inv == 1..NumInv

Backend == {"local", "remote"}

\* the JavaScript value undefined (an absent argument or property)
Undefined == "<undefined>"

\* JavaScript truthiness of a string-or-undefined value
Truthy(v) == v # Undefined /\ v # ""

----------------------------------------------------------------------------
(* Texts are sequences of characters *)

hi == <<"h", "i">>
fix == <<"f", "i", "x">>
go == <<"g", "o">>

IsSpace(c) == c \in {" ", "\t", "\n"}

\* the /i flag: compare letters without case
ToLowerCase(c) ==
    CASE c = "H" -> "h"
      [] c = "I" -> "i"
      [] c = "F" -> "f"
      [] c = "X" -> "x"
      [] c = "O" -> "o"
      [] c = "K" -> "k"
      [] OTHER -> c

\* String.prototype.split(/\s+/): the pieces between maximal whitespace runs,
\* computed for s[from..to] by halves; the pieces meeting at the middle are
\* joined, or both dropped when a whitespace run spans the middle
RECURSIVE SplitRange(_, _, _)
SplitRange(s, from, to) ==
    IF from = to
    THEN IF IsSpace(s[from]) THEN << << >>, << >> >> ELSE << << s[from] >> >>
    ELSE LET mid == (from + to) \div 2
             A == SplitRange(s, from, mid)
             B == SplitRange(s, mid + 1, to)
         IN  IF IsSpace(s[mid]) /\ IsSpace(s[mid + 1])
             THEN SubSeq(A, 1, Len(A) - 1) \o Tail(B)
             ELSE SubSeq(A, 1, Len(A) - 1) \o << A[Len(A)] \o B[1] >> \o Tail(B)

Split(s) == IF Len(s) = 0 THEN << << >> >> ELSE SplitRange(s, 1, Len(s))

\* does the literal p occur in s, ignoring case
Occurs(p, s) ==
    \E i \in 1..(Len(s) - Len(p) + 1) :
        \A j \in 1..Len(p) : ToLowerCase(s[i + j - 1]) = p[j]

\* RegExp.prototype.test for an alternation of literals
Test(alternatives, s) == \E p \in alternatives : Occurs(p, s)

CodePattern ==
    { <<"c","o","d","e">>, <<"i","m","p","l","e","m","e","n","t">>,
      <<"f","u","n","c","t","i","o","n">>, <<"c","l","a","s","s">>,
      <<"d","e","b","u","g">>, <<"f","i","x">> }

AnalysisPattern ==
    { <<"a","n","a","l","y","z","e">>, <<"e","x","p","l","a","i","n">>,
      <<"c","o","m","p","a","r","e">>, <<"e","v","a","l","u","a","t","e">> }

SimplePattern ==
    { <<"h","e","l","l","o">>, <<"h","i">>, <<"t","h","a","n","k","s">>,
      <<"y","e","s">>, <<"n","o">>, <<"o","k">> }

SimpleWordLimit == 20
ComplexWordLimit == 100

\* a slip: the complex check is made before the simple check
estimateComplexity_ComplexFirst(prompt) ==
    IF \/ Test(CodePattern, prompt) \/ Test(AnalysisPattern, prompt)
       \/ Len(Split(prompt)) > ComplexWordLimit
    THEN "complex"
    ELSE IF Test(SimplePattern, prompt) /\ Len(Split(prompt)) < SimpleWordLimit
         THEN "simple"
         ELSE "medium"

\* const wordCount = prompt.split(/\s+/).length
wordCount(prompt) == Len(Split(prompt))

estimateComplexity(prompt) ==
    LET hasCodeRequest == Test(CodePattern, prompt)
        hasAnalysisRequest == Test(AnalysisPattern, prompt)
        hasSimpleRequest == Test(SimplePattern, prompt)
    IN  IF hasSimpleRequest /\ wordCount(prompt) < SimpleWordLimit THEN "simple"
        ELSE IF hasCodeRequest \/ hasAnalysisRequest \/ wordCount(prompt) > ComplexWordLimit
             THEN "complex"
             ELSE "medium"

----------------------------------------------------------------------------
(* Configuration from environment.  A host is a sequence of pieces, a       *)
(* trailing "/" being a piece of its own; an unset variable is empty.       *)

ProcessEnv ==
    { [OLLAMA_HOST |-> <<>>, REMOTE_OLLAMA_HOST |-> <<>>,
       LOCAL_MODEL |-> Undefined, REMOTE_MODEL |-> Undefined],
      [OLLAMA_HOST |-> <<"http://gpu:8080", "/">>, REMOTE_OLLAMA_HOST |-> <<>>,
       LOCAL_MODEL |-> "tiny", REMOTE_MODEL |-> Undefined] }

\* env.X || fallback, for hosts and for model names
HostOr(v, fallback) == IF Len(v) > 0 THEN v ELSE fallback

ModelOr(v, fallback) == IF Truthy(v) THEN v ELSE fallback

Configuration(env) ==
    [LOCAL_OLLAMA_HOST |-> HostOr(env.OLLAMA_HOST, <<"http://localhost:8080">>),
     REMOTE_OLLAMA_HOST |-> HostOr(env.REMOTE_OLLAMA_HOST, <<"http://192.168.86.56:11434">>),
     DEFAULT_LOCAL_MODEL |-> ModelOr(env.LOCAL_MODEL, "qwen2.5:1.5b"),
     DEFAULT_REMOTE_MODEL |-> ModelOr(env.REMOTE_MODEL, "qwen2.5:7b")]

\* constructor(baseUrl): baseUrl.replace(/\/$/, '')
OllamaClient(url) ==
    IF Len(url) > 0 /\ url[Len(url)] = "/" THEN SubSeq(url, 1, Len(url) - 1) ELSE url

----------------------------------------------------------------------------
(* fetch: what a request to a backend can come back with *)

Rejected(reason) ==
    [rejected |-> TRUE, reason |-> reason, ok |-> FALSE, status |-> "",
     text |-> "", data |-> [invalid |-> TRUE]]

Answered(ok, status, text, data) ==
    [rejected |-> FALSE, reason |-> "", ok |-> ok, status |-> status,
     text |-> text, data |-> data]

\* bodies a backend may send with a success status
ChatBodies ==
    { [message |-> [content |-> "pong"]], [message |-> [role |-> "assistant"]],
      [done |-> TRUE], [invalid |-> TRUE] }

GenerateBodies ==
    { [response |-> "pong"], [done |-> TRUE], [invalid |-> TRUE] }

TagsBodies ==
    { [models |-> <<[name |-> "qwen2.5:7b"]>>], [models |-> <<>>],
      [version |-> "0"], [invalid |-> TRUE] }

BodiesOf(path) ==
    CASE path = "/api/chat" -> ChatBodies
      [] path = "/api/generate" -> GenerateBodies
      [] OTHER -> TagsBodies

\* AbortSignal.timeout(5000): a probe's request is aborted 5 s after it is sent
ProbeTimeoutMs == 5000

\* availability checks are meant to hold for a short time: 10 s
FreshnessWindowMs == 10000

\* the clock advances in steps of this many milliseconds
TickMs == 5000

ProbeTimeout == ProbeTimeoutMs \div TickMs

FreshnessWindow == FreshnessWindowMs \div TickMs

\* ages are counted up to here; an age of MaxAge reads "beyond the window"
MaxAge == FreshnessWindow + 1

\* a fetch of `path` at a backend resolves or rejects; once its timeout
\* signal has fired the request is aborted
FetchOutcomes(isUp, path, aborted) ==
    (IF isUp
     THEN { Answered(TRUE, "200", "", d) : d \in BodiesOf(path) }
          \cup { Answered(FALSE, "500", "boom", [invalid |-> TRUE]) }
     ELSE { Rejected("fetch failed") })
    \cup (IF aborted THEN { Rejected("The operation was aborted due to timeout") } ELSE {})

\* what an async method settles with
Returns(v) == [threw |-> FALSE, value |-> v, message |-> ""]

Throws(m) == [threw |-> TRUE, value |-> "", message |-> m]

\* response.json()
JsonFails(r) == "invalid" \in DOMAIN r.data

\* a slip: response.ok is not looked at
chat_IgnoresStatus(r) ==
    IF r.rejected THEN Throws(r.reason)
    ELSE IF JsonFails(r) THEN Returns("")
    ELSE IF "message" \in DOMAIN r.data /\ "content" \in DOMAIN r.data.message
              /\ Truthy(r.data.message.content)
         THEN Returns(r.data.message.content)
         ELSE Returns("")

\* OllamaClient.chat, given what its fetch came back with
chat(r) ==
    IF r.rejected THEN Throws(r.reason)
    ELSE IF ~r.ok THEN Throws("Ollama error: " \o r.status \o " " \o r.text)
    ELSE IF JsonFails(r) THEN Throws("Unexpected token in JSON")
    ELSE IF "message" \in DOMAIN r.data /\ "content" \in DOMAIN r.data.message
              /\ Truthy(r.data.message.content)
         THEN Returns(r.data.message.content)
         ELSE Returns("")

\* a slip: generate does not look at response.ok
generate_IgnoresStatus(r) ==
    IF r.rejected THEN Throws(r.reason)
    ELSE IF JsonFails(r) THEN Returns("")
    ELSE IF "response" \in DOMAIN r.data /\ Truthy(r.data.response)
         THEN Returns(r.data.response)
         ELSE Returns("")

\* OllamaClient.generate
generate(r) ==
    IF r.rejected THEN Throws(r.reason)
    ELSE IF ~r.ok THEN Throws("Ollama error: " \o r.status \o " " \o r.text)
    ELSE IF JsonFails(r) THEN Throws("Unexpected token in JSON")
    ELSE IF "response" \in DOMAIN r.data /\ Truthy(r.data.response)
         THEN Returns(r.data.response)
         ELSE Returns("")

\* OllamaClient.listModels
listModels(r) ==
    IF r.rejected THEN Throws(r.reason)
    ELSE IF ~r.ok THEN Throws("Ollama error: " \o r.status)
    ELSE IF JsonFails(r) THEN Throws("Unexpected token in JSON")
    ELSE IF "models" \in DOMAIN r.data THEN Returns(r.data.models)
         ELSE Returns(<<>>)

\* a slip: any answer counts as available, whatever its status
isAvailable_AnyAnswer(r) == ~r.rejected

\* OllamaClient.isAvailable: try { return response.ok } catch { return false }
isAvailable(r) == IF r.rejected THEN FALSE ELSE r.ok

\* a fetch a method has issued; `result` is what it came back with, once settled
Fetch(b, path, signal, model, messages) ==
    [to |-> b, path |-> path, signal |-> signal, model |-> model,
     messages |-> messages, settled |-> FALSE, result |-> Rejected(""),
     since |-> 0, took |-> 0]

\* a slip: the probe's request carries no timeout signal
ProbeFetch_NoSignal(b) == Fetch(b, "/api/tags", FALSE, Undefined, << >>)

\* lines 80-82: fetch(`${baseUrl}/api/tags`, { signal: AbortSignal.timeout(5000) })
ProbeFetch(b) == Fetch(b, "/api/tags", TRUE, Undefined, << >>)

\* isAvailable reads response.ok only: the body of the answer stays unread
Unread(r) == [r EXCEPT !.data = [unread |-> TRUE]]

\* the timeout signal of a request has fired
Aborted(f) == f.signal /\ ~f.settled /\ f.since >= ProbeTimeout

\* the awaited fetch of an invocation is its last one; it comes back with r
Settle(fs, r) ==
    [fs EXCEPT ![Len(fs)] = [@ EXCEPT !.settled = TRUE, !.result = r, 
                              !.took = fs[Len(fs)].since]]

\* the fetch an invocation issued last
LastFetch(i) == fetches[i][Len(fetches[i])]

----------------------------------------------------------------------------
(* The arguments a host may pass *)

Messages == { hi, fix, go }

Systems == { Undefined, "be brief" }

Models == { Undefined, "", "llama3" }

Prefers == { Undefined, "fast", "smart", "auto", "turbo" }

ChatArgs == [message : Messages, system : Systems, model : Models, prefer : Prefers]

GenerateArgs == [prompt : { hi }, model : { Undefined, "llama3" }, max_tokens : { Undefined }]

ToolNames == { "chat", "generate", "list_models", "health_check", "restart" }

NoRequest == [name |-> "", arguments |-> [none |-> TRUE]]

NoRoute == "none"

NoTier == "none"

NoResponse == [pending |-> TRUE]

----------------------------------------------------------------------------
(* case 'chat': routing, lines 203-230 *)

\* a slip: an absent preference defaults to fast
PreferOf_DefaultFast(args) == IF args.prefer = Undefined THEN "fast" ELSE args.prefer

\* const { ..., prefer = 'auto' } = args
PreferOf(args) == IF args.prefer = Undefined THEN "auto" ELSE args.prefer

\* a slip: the explicit model is dropped for the backend's default
RouteExplicit_DefaultModel(model, available) ==
    [client |-> IF available THEN "local" ELSE "remote",
     modelToUse |-> IF available THEN config.DEFAULT_LOCAL_MODEL
                    ELSE config.DEFAULT_REMOTE_MODEL]

\* a slip: a given model is sent to local whatever the probe said
RouteExplicit_TrustsLocal(model, available) ==
    [client |-> "local", modelToUse |-> model]

\* if (model): explicit model specified
RouteExplicit(model, available) ==
    [client |-> IF available THEN "local" ELSE "remote", modelToUse |-> model]

\* a slip: fast falls back to remote when local is down
RouteFast_FallsBack ==
    [client |-> IF up["local"] THEN "local" ELSE "remote",
     modelToUse |-> config.DEFAULT_LOCAL_MODEL]

\* else if (prefer === 'fast')
RouteFast == [client |-> "local", modelToUse |-> config.DEFAULT_LOCAL_MODEL]

\* a slip: smart names the local default model
RouteSmart_LocalModel == [client |-> "remote", modelToUse |-> config.DEFAULT_LOCAL_MODEL]

\* else if (prefer === 'smart')
RouteSmart == [client |-> "remote", modelToUse |-> config.DEFAULT_REMOTE_MODEL]

\* a slip: a simple message goes to local without looking at the probe
RouteAuto_IgnoresProbe(tier, available) ==
    IF tier = "simple"
    THEN [client |-> "local", modelToUse |-> config.DEFAULT_LOCAL_MODEL]
    ELSE [client |-> "remote",
          modelToUse |-> IF tier = "complex" THEN config.DEFAULT_REMOTE_MODEL
                         ELSE config.DEFAULT_LOCAL_MODEL]

\* a slip: remote always gets the remote default model
RouteAuto_RemoteModel(tier, available) ==
    IF tier = "simple" /\ available
    THEN [client |-> "local", modelToUse |-> config.DEFAULT_LOCAL_MODEL]
    ELSE [client |-> "remote", modelToUse |-> config.DEFAULT_REMOTE_MODEL]

\* a slip: a remote that is down is avoided
RouteAuto_AvoidsDownRemote(tier, available) ==
    IF (tier = "simple" /\ available) \/ ~up["remote"]
    THEN [client |-> "local", modelToUse |-> config.DEFAULT_LOCAL_MODEL]
    ELSE [client |-> "remote",
          modelToUse |-> IF tier = "complex" THEN config.DEFAULT_REMOTE_MODEL
                         ELSE config.DEFAULT_LOCAL_MODEL]

\* else: auto-routing based on complexity
RouteAuto(tier, available) ==
    IF tier = "simple" /\ available
    THEN [client |-> "local", modelToUse |-> config.DEFAULT_LOCAL_MODEL]
    ELSE [client |-> "remote",
          modelToUse |-> IF tier = "complex" THEN config.DEFAULT_REMOTE_MODEL
                         ELSE config.DEFAULT_LOCAL_MODEL]

\* do these arguments reach the else branch, line 219, where the message is classified
ReachesAuto(args) ==
    ~Truthy(args.model) /\ PreferOf(args) \notin { "fast", "smart" }

\* a slip: the auto path probes before it looks at the complexity
AwaitsIsAvailable_AnyAuto(args) ==
    \/ Truthy(args.model)
    \/ PreferOf(args) \notin { "fast", "smart" }

\* does the routing of these arguments await localClient.isAvailable()
AwaitsIsAvailable(args) ==
    \/ Truthy(args.model)
    \/ /\ PreferOf(args) \notin { "fast", "smart" }
       /\ estimateComplexity(args.message) = "simple"

\* a slip: a preference outside the enum leaves client and model unassigned
Route_NoElse(args, available) ==
    IF Truthy(args.model) THEN RouteExplicit(args.model, available)
    ELSE IF PreferOf(args) = "fast" THEN RouteFast
    ELSE IF PreferOf(args) = "smart" THEN RouteSmart
    ELSE IF PreferOf(args) = "auto"
         THEN RouteAuto(estimateComplexity(args.message), available)
         ELSE [client |-> NoRoute, modelToUse |-> Undefined]

\* the whole if / else-if chain, given what isAvailable() resolved to
Route(args, available) ==
    IF Truthy(args.model) THEN RouteExplicit(args.model, available)
    ELSE IF PreferOf(args) = "fast" THEN RouteFast
    ELSE IF PreferOf(args) = "smart" THEN RouteSmart
    ELSE RouteAuto(estimateComplexity(args.message), available)

\* a slip: the system message is pushed after the user message
BuildMessages_SystemLast(args) ==
    << [role |-> "user", content |-> args.message] >>
    \o (IF Truthy(args.system) THEN << [role |-> "system", content |-> args.system] >>
        ELSE << >>)

\* build messages, lines 233-237
BuildMessages(args) ==
    (IF Truthy(args.system) THEN << [role |-> "system", content |-> args.system] >>
     ELSE << >>)
    \o << [role |-> "user", content |-> args.message] >>

\* a slip: the error is thrown on to the host
Caught_Rethrows(message) == [thrown |-> message]

\* the catch of the handler, lines 319-329
Caught(message) ==
    [content |-> << [type |-> "text", text |-> "Error: " \o message] >>, isError |-> TRUE]

\* JSON.stringify(value, null, 2)
JSON_stringify(value) == [json |-> value]

TextContent(text) == [content |-> << [type |-> "text", text |-> text] >>]

----------------------------------------------------------------------------
(* State *)

Init ==
    /\ \E env \in ProcessEnv :
          /\ config = Configuration(env)
          /\ baseUrl = [b \in Backend |->
                          OllamaClient(IF b = "local"
                                       THEN Configuration(env).LOCAL_OLLAMA_HOST
                                       ELSE Configuration(env).REMOTE_OLLAMA_HOST)]
    /\ up \in [Backend -> BOOLEAN]
    /\ pc = [i \in Inv |-> "idle"]
    /\ request = [i \in Inv |-> NoRequest]
    /\ localAvailable = [i \in Inv |-> FALSE]
    /\ client = [i \in Inv |-> NoRoute]
    /\ modelToUse = [i \in Inv |-> Undefined]
    /\ complexity = [i \in Inv |-> NoTier]
    /\ results = [i \in Inv |-> << >>]
    /\ fetches = [i \in Inv |-> << >>]
    /\ response = [i \in Inv |-> NoResponse]

\* the environment: a backend goes down or comes back
BackendChanges(b) ==
    /\ up' = [up EXCEPT ![b] = ~@]
    /\ UNCHANGED <<complexity, config, baseUrl, pc, request, localAvailable, client,
                   modelToUse, results, fetches, response>>

\* a slip: client and modelToUse are declared outside the handler, one for all calls
Dispatch_SharedRoute(i, fs, args, route) ==
    /\ client' = [j \in Inv |-> route.client]
    /\ modelToUse' = [j \in Inv |-> route.modelToUse]
    /\ fetches' = [fetches EXCEPT ![i] =
          Append(fs, Fetch(route.client, "/api/chat", FALSE, route.modelToUse,
                           BuildMessages(args)))]
    /\ pc' = [pc EXCEPT ![i] = "chat_fetch"]

\* lines 232-240: build the messages and call client.chat
Dispatch(i, fs, args, route) ==
    /\ client' = [client EXCEPT ![i] = route.client]
    /\ modelToUse' = [modelToUse EXCEPT ![i] = route.modelToUse]
    /\ fetches' = [fetches EXCEPT ![i] =
          Append(fs, Fetch(route.client, "/api/chat", FALSE, route.modelToUse,
                           BuildMessages(args)))]
    /\ pc' = [pc EXCEPT ![i] = "chat_fetch"]

\* a chat call arrives: the handler runs up to its first await
CallTool_chat(i, argSet) ==
    /\ pc[i] = "idle"
    /\ \E args \in argSet :
          /\ request' = [request EXCEPT ![i] = [name |-> "chat", arguments |-> args]]
          /\ complexity' = [complexity EXCEPT ![i] =
                IF ReachesAuto(args) THEN estimateComplexity(args.message) ELSE NoTier]
          /\ IF AwaitsIsAvailable(args)
             THEN /\ fetches' = [fetches EXCEPT ![i] =
                        Append(@, ProbeFetch("local"))]
                  /\ pc' = [pc EXCEPT ![i] = "chat_isAvailable"]
                  /\ UNCHANGED <<client, modelToUse>>
             ELSE Dispatch(i, fetches[i], args, Route(args, FALSE))
    /\ UNCHANGED <<config, baseUrl, up, localAvailable, results, response>>

\* localClient.isAvailable() resolves: the route is chosen and the chat sent
chat_isAvailable(i) ==
    /\ pc[i] = "chat_isAvailable"
    /\ \E r \in { Unread(o) : o \in FetchOutcomes(up["local"], "/api/tags",
                                                    Aborted(LastFetch(i))) } :
          /\ localAvailable' = [localAvailable EXCEPT ![i] = isAvailable(r)]
          /\ Dispatch(i, Settle(fetches[i], r), request[i].arguments,
                      Route(request[i].arguments, isAvailable(r)))
    /\ UNCHANGED <<complexity, config, baseUrl, up, request, results, response>>

\* a slip: a failed chat on local is sent again to remote
chat_fetch_FailsOver(i) ==
    /\ pc[i] = "chat_fetch"
    /\ \E r \in FetchOutcomes(up[client[i]], "/api/chat", FALSE) :
          IF chat(r).threw /\ client[i] = "local"
          THEN /\ fetches' = [fetches EXCEPT ![i] =
                     Append(Settle(@, r),
                            Fetch("remote", "/api/chat", FALSE, modelToUse[i],
                                  BuildMessages(request[i].arguments)))]
               /\ client' = [client EXCEPT ![i] = "remote"]
               /\ UNCHANGED <<pc, response>>
          ELSE /\ fetches' = [fetches EXCEPT ![i] = Settle(@, r)]
               /\ response' = [response EXCEPT ![i] =
                     IF chat(r).threw THEN Caught(chat(r).message)
                     ELSE [content |-> << [type |-> "text", text |-> chat(r).value] >>,
                           metadata |-> [model |-> modelToUse[i],
                                         endpoint |-> baseUrl[client[i]]]]]
               /\ pc' = [pc EXCEPT ![i] = "done"]
               /\ UNCHANGED client
    /\ UNCHANGED <<complexity, config, baseUrl, up, request, localAvailable, modelToUse, results>>

\* a slip: the response reports the backend's default model and configured host
chat_fetch_ReportsDefaults(i) ==
    /\ pc[i] = "chat_fetch"
    /\ \E r \in FetchOutcomes(up[client[i]], "/api/chat", FALSE) :
          /\ fetches' = [fetches EXCEPT ![i] = Settle(@, r)]
          /\ response' = [response EXCEPT ![i] =
                IF chat(r).threw THEN Caught(chat(r).message)
                ELSE [content |-> << [type |-> "text", text |-> chat(r).value] >>,
                      metadata |-> [model |-> IF client[i] = "local"
                                              THEN config.DEFAULT_LOCAL_MODEL
                                              ELSE config.DEFAULT_REMOTE_MODEL,
                                    endpoint |-> IF client[i] = "local"
                                                 THEN config.LOCAL_OLLAMA_HOST
                                                 ELSE config.REMOTE_OLLAMA_HOST]]]
    /\ pc' = [pc EXCEPT ![i] = "done"]
    /\ UNCHANGED <<complexity, config, baseUrl, up, request, localAvailable, client,
                   modelToUse, results>>

\* client.chat() settles: lines 240-253, or the catch
chat_fetch(i) ==
    /\ pc[i] = "chat_fetch"
    /\ \E r \in FetchOutcomes(up[client[i]], "/api/chat", FALSE) :
          /\ fetches' = [fetches EXCEPT ![i] = Settle(@, r)]
          /\ response' = [response EXCEPT ![i] =
                IF chat(r).threw THEN Caught(chat(r).message)
                ELSE [content |-> << [type |-> "text", text |-> chat(r).value] >>,
                      metadata |-> [model |-> modelToUse[i],
                                    endpoint |-> baseUrl[client[i]]]]]
    /\ pc' = [pc EXCEPT ![i] = "done"]
    /\ UNCHANGED <<complexity, config, baseUrl, up, request, localAvailable, client,
                   modelToUse, results>>

\* a slip: a given model becomes the remote default of later calls
CallTool_generate_AdoptsModel(i) ==
    /\ pc[i] = "idle"
    /\ \E args \in GenerateArgs :
          /\ request' = [request EXCEPT ![i] = [name |-> "generate", arguments |-> args]]
          /\ modelToUse' = [modelToUse EXCEPT ![i] =
                ModelOr(args.model, config.DEFAULT_REMOTE_MODEL)]
          /\ config' = [config EXCEPT !.DEFAULT_REMOTE_MODEL = ModelOr(args.model, @)]
          /\ fetches' = [fetches EXCEPT ![i] =
                Append(@, Fetch("remote", "/api/generate", FALSE,
                                ModelOr(args.model, config.DEFAULT_REMOTE_MODEL), << >>))]
    /\ pc' = [pc EXCEPT ![i] = "generate_fetch"]
    /\ UNCHANGED <<complexity, baseUrl, up, localAvailable, client, results, response>>

\* a slip: generate is sent to local when local is up
CallTool_generate_PrefersLocal(i) ==
    /\ pc[i] = "idle"
    /\ \E args \in GenerateArgs :
          /\ request' = [request EXCEPT ![i] = [name |-> "generate", arguments |-> args]]
          /\ modelToUse' = [modelToUse EXCEPT ![i] =
                ModelOr(args.model, config.DEFAULT_REMOTE_MODEL)]
          /\ fetches' = [fetches EXCEPT ![i] =
                Append(@, Fetch(IF up["local"] THEN "local" ELSE "remote",
                                "/api/generate", FALSE,
                                ModelOr(args.model, config.DEFAULT_REMOTE_MODEL), << >>))]
    /\ pc' = [pc EXCEPT ![i] = "generate_fetch"]
    /\ UNCHANGED <<complexity, config, baseUrl, up, localAvailable, client, results, response>>

\* case 'generate', lines 256-262: up to the awaited remoteClient.generate
CallTool_generate(i) ==
    /\ pc[i] = "idle"
    /\ \E args \in GenerateArgs :
          /\ request' = [request EXCEPT ![i] = [name |-> "generate", arguments |-> args]]
          /\ modelToUse' = [modelToUse EXCEPT ![i] =
                ModelOr(args.model, config.DEFAULT_REMOTE_MODEL)]
          /\ fetches' = [fetches EXCEPT ![i] =
                Append(@, Fetch("remote", "/api/generate", FALSE,
                                ModelOr(args.model, config.DEFAULT_REMOTE_MODEL), << >>))]
    /\ pc' = [pc EXCEPT ![i] = "generate_fetch"]
    /\ UNCHANGED <<complexity, config, baseUrl, up, localAvailable, client, results, response>>

\* remoteClient.generate() settles: lines 264-266, or the catch
generate_fetch(i) ==
    /\ pc[i] = "generate_fetch"
    /\ \E r \in FetchOutcomes(up["remote"], "/api/generate", FALSE) :
          /\ fetches' = [fetches EXCEPT ![i] = Settle(@, r)]
          /\ response' = [response EXCEPT ![i] =
                IF generate(r).threw THEN Caught(generate(r).message)
                ELSE TextContent(generate(r).value)]
    /\ pc' = [pc EXCEPT ![i] = "done"]
    /\ UNCHANGED <<complexity, config, baseUrl, up, request, localAvailable, client,
                   modelToUse, results>>

\* the slot of one backend in the list_models results, lines 272-282
Slot(settled) ==
    IF settled.threw THEN << [error |-> settled.message] >> ELSE settled.value

\* case 'list_models', lines 270-273: up to the awaited localClient.listModels
CallTool_list_models(i) ==
    /\ pc[i] = "idle"
    /\ request' = [request EXCEPT ![i] = [name |-> "list_models", arguments |-> [none |-> TRUE]]]
    /\ results' = [results EXCEPT ![i] = [local |-> << >>, remote |-> << >>]]
    /\ fetches' = [fetches EXCEPT ![i] =
          Append(@, Fetch("local", "/api/tags", FALSE, Undefined, << >>))]
    /\ pc' = [pc EXCEPT ![i] = "list_local"]
    /\ UNCHANGED <<complexity, config, baseUrl, up, localAvailable, client, modelToUse, response>>

\* a slip: no try around the local query, its failure ends the call
list_local_Aborts(i) ==
    /\ pc[i] = "list_local"
    /\ \E r \in FetchOutcomes(up["local"], "/api/tags", FALSE) :
          IF listModels(r).threw
          THEN /\ fetches' = [fetches EXCEPT ![i] = Settle(@, r)]
               /\ response' = [response EXCEPT ![i] = Caught(listModels(r).message)]
               /\ pc' = [pc EXCEPT ![i] = "done"]
               /\ UNCHANGED results
          ELSE /\ results' = [results EXCEPT ![i].local = Slot(listModels(r))]
               /\ fetches' = [fetches EXCEPT ![i] =
                     Append(Settle(@, r),
                            Fetch("remote", "/api/tags", FALSE, Undefined, << >>))]
               /\ pc' = [pc EXCEPT ![i] = "list_remote"]
               /\ UNCHANGED response
    /\ UNCHANGED <<complexity, config, baseUrl, up, request, localAvailable, client, modelToUse>>

\* localClient.listModels() settles, then remoteClient.listModels is called
list_local(i) ==
    /\ pc[i] = "list_local"
    /\ \E r \in FetchOutcomes(up["local"], "/api/tags", FALSE) :
          /\ results' = [results EXCEPT ![i].local = Slot(listModels(r))]
          /\ fetches' = [fetches EXCEPT ![i] =
                Append(Settle(@, r), Fetch("remote", "/api/tags", FALSE, Undefined, << >>))]
    /\ pc' = [pc EXCEPT ![i] = "list_remote"]
    /\ UNCHANGED <<complexity, config, baseUrl, up, request, localAvailable, client,
                   modelToUse, response>>

\* a slip: the remote query is repeated until it succeeds
list_remote_UntilSuccess(i) ==
    /\ pc[i] = "list_remote"
    /\ \E r \in FetchOutcomes(up["remote"], "/api/tags", FALSE) :
          /\ ~listModels(r).threw
          /\ fetches' = [fetches EXCEPT ![i] = Settle(@, r)]
          /\ results' = [results EXCEPT ![i].remote = Slot(listModels(r))]
          /\ response' = [response EXCEPT ![i] =
                TextContent(JSON_stringify(
                    [results[i] EXCEPT !.remote = Slot(listModels(r))]))]
    /\ pc' = [pc EXCEPT ![i] = "done"]
    /\ UNCHANGED <<complexity, config, baseUrl, up, request, localAvailable, client,
                   modelToUse>>

\* remoteClient.listModels() settles: lines 284-291
list_remote(i) ==
    /\ pc[i] = "list_remote"
    /\ \E r \in FetchOutcomes(up["remote"], "/api/tags", FALSE) :
          /\ fetches' = [fetches EXCEPT ![i] = Settle(@, r)]
          /\ results' = [results EXCEPT ![i].remote = Slot(listModels(r))]
          /\ response' = [response EXCEPT ![i] =
                TextContent(JSON_stringify(
                    [results[i] EXCEPT !.remote = Slot(listModels(r))]))]
    /\ pc' = [pc EXCEPT ![i] = "done"]
    /\ UNCHANGED <<complexity, config, baseUrl, up, request, localAvailable, client,
                   modelToUse>>

\* a slip: both probes are started together
CallTool_health_check_Parallel(i) ==
    /\ pc[i] = "idle"
    /\ request' = [request EXCEPT ![i] = [name |-> "health_check", arguments |-> [none |-> TRUE]]]
    /\ fetches' = [fetches EXCEPT ![i] = << ProbeFetch("remote"), ProbeFetch("local") >>]
    /\ pc' = [pc EXCEPT ![i] = "health_local"]
    /\ UNCHANGED <<complexity, config, baseUrl, up, localAvailable, client, modelToUse,
                   results, response>>

\* case 'health_check', lines 295-298: up to the awaited localClient.isAvailable
CallTool_health_check(i) ==
    /\ pc[i] = "idle"
    /\ request' = [request EXCEPT ![i] = [name |-> "health_check", arguments |-> [none |-> TRUE]]]
    /\ fetches' = [fetches EXCEPT ![i] =
          Append(@, ProbeFetch("local"))]
    /\ pc' = [pc EXCEPT ![i] = "health_local"]
    /\ UNCHANGED <<complexity, config, baseUrl, up, localAvailable, client, modelToUse,
                   results, response>>

\* localClient.isAvailable() resolves, then remoteClient.isAvailable is called
health_local(i) ==
    /\ pc[i] = "health_local"
    /\ \E r \in { Unread(o) : o \in FetchOutcomes(up["local"], "/api/tags",
                                                    Aborted(LastFetch(i))) } :
          /\ results' = [results EXCEPT ![i] =
                [local |-> [url |-> config.LOCAL_OLLAMA_HOST,
                            available |-> isAvailable(r)]]]
          /\ fetches' = [fetches EXCEPT ![i] =
                Append(Settle(@, r), ProbeFetch("remote"))]
    /\ pc' = [pc EXCEPT ![i] = "health_remote"]
    /\ UNCHANGED <<complexity, config, baseUrl, up, request, localAvailable, client,
                   modelToUse, response>>

\* a slip: the remote flag repeats the local one
health_remote_RepeatsLocal(i) ==
    /\ pc[i] = "health_remote"
    /\ \E r \in { Unread(o) : o \in FetchOutcomes(up["remote"], "/api/tags",
                                                    Aborted(LastFetch(i))) } :
          LET health == [local |-> results[i].local,
                         remote |-> [url |-> config.REMOTE_OLLAMA_HOST,
                                     available |-> results[i].local.available]]
          IN  /\ fetches' = [fetches EXCEPT ![i] = Settle(@, r)]
              /\ results' = [results EXCEPT ![i] = health]
              /\ response' = [response EXCEPT ![i] = TextContent(JSON_stringify(health))]
    /\ pc' = [pc EXCEPT ![i] = "done"]
    /\ UNCHANGED <<complexity, config, baseUrl, up, request, localAvailable, client,
                   modelToUse>>

\* remoteClient.isAvailable() resolves: lines 306-313
health_remote(i) ==
    /\ pc[i] = "health_remote"
    /\ \E r \in { Unread(o) : o \in FetchOutcomes(up["remote"], "/api/tags",
                                                    Aborted(LastFetch(i))) } :
          LET health == [local |-> results[i].local,
                         remote |-> [url |-> config.REMOTE_OLLAMA_HOST,
                                     available |-> isAvailable(r)]]
          IN  /\ fetches' = [fetches EXCEPT ![i] = Settle(@, r)]
              /\ results' = [results EXCEPT ![i] = health]
              /\ response' = [response EXCEPT ![i] = TextContent(JSON_stringify(health))]
    /\ pc' = [pc EXCEPT ![i] = "done"]
    /\ UNCHANGED <<complexity, config, baseUrl, up, request, localAvailable, client,
                   modelToUse>>

\* default: throw new Error(`Unknown tool: ${name}`), caught at line 319
CallTool_default(i) ==
    /\ pc[i] = "idle"
    /\ \E name \in ToolNames \ { "chat", "generate", "list_models", "health_check" } :
          /\ request' = [request EXCEPT ![i] = [name |-> name, arguments |-> [none |-> TRUE]]]
          /\ response' = [response EXCEPT ![i] = Caught("Unknown tool: " \o name)]
    /\ pc' = [pc EXCEPT ![i] = "done"]
    /\ UNCHANGED <<complexity, config, baseUrl, up, localAvailable, client, modelToUse,
                   results, fetches>>

\* the host takes the response; the slot is free for the next call
Return(i) ==
    /\ pc[i] = "done"
    /\ pc' = [pc EXCEPT ![i] = "idle"]
    /\ request' = [request EXCEPT ![i] = NoRequest]
    /\ localAvailable' = [localAvailable EXCEPT ![i] = FALSE]
    /\ client' = [client EXCEPT ![i] = NoRoute]
    /\ modelToUse' = [modelToUse EXCEPT ![i] = Undefined]
    /\ complexity' = [complexity EXCEPT ![i] = NoTier]
    /\ results' = [results EXCEPT ![i] = << >>]
    /\ fetches' = [fetches EXCEPT ![i] = << >>]
    /\ response' = [response EXCEPT ![i] = NoResponse]
    /\ UNCHANGED <<config, baseUrl, up>>

\* time passes, up to the moment a pending request's timeout fires; a
\* response that is ready is handed over at once.  Every request sent with a
\* timeout signal, pending or settled, is one step older.
Tick ==
    /\ \A i \in Inv : pc[i] # "done"
    /\ \A i \in Inv : \A k \in DOMAIN fetches[i] : ~Aborted(fetches[i][k])
    /\ fetches' = [i \in Inv |->
          [k \in DOMAIN fetches[i] |->
              IF fetches[i][k].signal /\ fetches[i][k].since < MaxAge
              THEN [fetches[i][k] EXCEPT !.since = @ + 1]
              ELSE fetches[i][k]]]
    /\ UNCHANGED <<complexity, config, baseUrl, up, pc, request, localAvailable,
                   client, modelToUse, results, response>>

\* no invocation is being handled
NoneInFlight == \A j \in Inv : pc[j] = "idle"

\* the host sends one request at a time, with any arguments
Next ==
    \/ \E b \in Backend : BackendChanges(b)
    \/ \E i \in Inv : NoneInFlight /\ CallTool_chat(i, ChatArgs)
    \/ \E i \in Inv : NoneInFlight /\ CallTool_generate(i)
    \/ \E i \in Inv : NoneInFlight /\ CallTool_list_models(i)
    \/ \E i \in Inv : NoneInFlight /\ CallTool_health_check(i)
    \/ \E i \in Inv : NoneInFlight /\ CallTool_default(i)
    \/ \E i \in Inv : chat_isAvailable(i)
    \/ \E i \in Inv : chat_fetch(i)
    \/ \E i \in Inv : generate_fetch(i)
    \/ \E i \in Inv : list_local(i)
    \/ \E i \in Inv : list_remote(i)
    \/ \E i \in Inv : health_local(i)
    \/ \E i \in Inv : health_remote(i)
    \/ \E i \in Inv : Return(i)

Spec == Init /\ [][Next]_vars

\* the same host, while time passes
NextTimed == Next \/ Tick

SpecTimed == Init /\ [][NextTimed]_vars

\* time does not stop, and a request whose timeout signal has fired is
\* aborted; nothing makes a backend answer
Fairness ==
    /\ WF_vars(Tick)
    /\ \A i \in Inv :
          /\ WF_vars(chat_isAvailable(i) /\ Aborted(LastFetch(i)))
          /\ WF_vars(health_local(i) /\ Aborted(LastFetch(i)))
          /\ WF_vars(health_remote(i) /\ Aborted(LastFetch(i)))

SpecTimedFair == SpecTimed /\ Fairness

----------------------------------------------------------------------------
(* Texts for the classifier: a head, then filler words, then a tail *)

RECURSIVE Filler(_)
Filler(n) == IF n = 0 THEN << >> ELSE << " ", "a" >> \o Filler(n - 1)

Heads ==
    { << >>, hi, fix, go, << "H", "I" >>, << "t", "h", "i", "s" >>,
      hi \o << " ", " " >> \o fix,
      << "e", "x", "p", "l", "a", "i", "n" >> }

FillerCounts ==
    { 0, 1, SimpleWordLimit - 2, SimpleWordLimit - 1,
      ComplexWordLimit - 1, ComplexWordLimit }

Tails == { << >>, << "\n" >> }

Texts == { h \o Filler(n) \o t : h \in Heads, n \in FillerCounts, t \in Tails }

ClassifyArgs ==
    [message : Texts, system : { Undefined }, model : { Undefined }, prefer : { "auto" }]

\* chat calls on the auto path, one at a time, over the texts
NextClassify ==
    \/ \E b \in Backend : BackendChanges(b)
    \/ \E i \in Inv : NoneInFlight /\ CallTool_chat(i, ClassifyArgs)
    \/ \E i \in Inv : chat_isAvailable(i)
    \/ \E i \in Inv : chat_fetch(i)
    \/ \E i \in Inv : Return(i)

SpecClassify == Init /\ [][NextClassify]_vars

\* the arguments of the calls that overlap
OverlapChatArgs ==
    { a \in ChatArgs : a.system = Undefined /\ a.model # "" /\ a.prefer # "turbo"
                       /\ (a.model # Undefined => a.prefer = Undefined /\ a.message = hi) }

\* the host sends requests without waiting for the responses
NextOverlap ==
    \/ \E b \in Backend : BackendChanges(b)
    \/ \E i \in Inv : CallTool_chat(i, OverlapChatArgs)
    \/ \E i \in Inv : CallTool_generate(i)
    \/ \E i \in Inv : CallTool_list_models(i)
    \/ \E i \in Inv : CallTool_health_check(i)
    \/ \E i \in Inv : CallTool_default(i)
    \/ \E i \in Inv : chat_isAvailable(i)
    \/ \E i \in Inv : chat_fetch(i)
    \/ \E i \in Inv : generate_fetch(i)
    \/ \E i \in Inv : list_local(i)
    \/ \E i \in Inv : list_remote(i)
    \/ \E i \in Inv : health_local(i)
    \/ \E i \in Inv : health_remote(i)
    \/ \E i \in Inv : Return(i)

SpecOverlap == Init /\ [][NextOverlap]_vars

\* every request comes back: the chat, generate and list-models requests
\* by assumption, the probes because their timeout fires
Responsive ==
    \A i \in Inv :
        /\ WF_vars(chat_isAvailable(i)) /\ WF_vars(chat_fetch(i))
        /\ WF_vars(generate_fetch(i))
        /\ WF_vars(list_local(i)) /\ WF_vars(list_remote(i))
        /\ WF_vars(health_local(i)) /\ WF_vars(health_remote(i))

SpecOverlapFair == SpecOverlap /\ Responsive

\* the arguments of the chat calls whose probes are timed
ProbeChatArgs ==
    { a \in ChatArgs : /\ a.system = Undefined /\ a.model # ""
                       /\ a.message = hi /\ a.prefer = Undefined
                       /\ (a.model # Undefined => a.prefer = Undefined /\ a.message = hi) }

\* the tools that ask for availability, overlapping, while time passes
NextProbes ==
    \/ \E b \in Backend : BackendChanges(b)
    \/ \E i \in Inv : CallTool_chat(i, ProbeChatArgs)
    \/ \E i \in Inv : CallTool_health_check(i)
    \/ \E i \in Inv : chat_isAvailable(i)
    \/ \E i \in Inv : chat_fetch(i)
    \/ \E i \in Inv : health_local(i)
    \/ \E i \in Inv : health_remote(i)
    \/ \E i \in Inv : Return(i)
    \/ Tick

SpecProbes == Init /\ [][NextProbes]_vars

----------------------------------------------------------------------------
(* Properties *)

IsChat(i) == request[i].name = "chat"

Args(i) == request[i].arguments

\* the chat requests an invocation has sent
ChatFetches(i) == { k \in DOMAIN fetches[i] : fetches[i][k].path = "/api/chat" }

\* the liveness probes an invocation has sent
Probes(i) == { k \in DOMAIN fetches[i] : fetches[i][k].signal }

\* chat without explicit model, on the auto path
IsAuto(i) ==
    IsChat(i) /\ ~Truthy(Args(i).model) /\ PreferOf(Args(i)) \notin { "fast", "smart" }

\* C1: a chat request with no explicit model, preference auto and a simple
\* message is sent to local iff the probe issued for it returned true, and to
\* remote in every other case.
C1_AutoSimpleLocalIffProbe ==
    \A i \in Inv :
        ( /\ IsChat(i) /\ ~Truthy(Args(i).model) /\ PreferOf(Args(i)) = "auto"
          /\ estimateComplexity(Args(i).message) = "simple" )
        => \A k \in ChatFetches(i) :
              /\ k = 2 /\ Probes(i) = { 1 }
              /\ fetches[i][1].to = "local" /\ fetches[i][1].settled
              /\ fetches[i][k].to = (IF localAvailable[i] THEN "local" ELSE "remote")
              /\ localAvailable[i] = (~fetches[i][1].result.rejected /\ fetches[i][1].result.ok)

C1_Witness ==
    \E i \in Inv :
        /\ IsChat(i) /\ ~Truthy(Args(i).model) /\ Args(i).prefer = "auto"
        /\ estimateComplexity(Args(i).message) = "simple"
        /\ pc[i] = "chat_fetch" /\ localAvailable[i] /\ fetches[i][2].to = "local"

\* C2: with an explicit model, whatever the preference, local is probed; the
\* request goes to local if the probe returned true and to remote otherwise,
\* and the model sent is the explicit model.
C2_ExplicitModelRouting ==
    \A i \in Inv :
        (IsChat(i) /\ Truthy(Args(i).model))
        => /\ Probes(i) = { 1 } /\ fetches[i][1].to = "local"
           /\ \A k \in ChatFetches(i) :
                 /\ k = 2 /\ fetches[i][1].settled
                 /\ fetches[i][k].to = (IF localAvailable[i] THEN "local" ELSE "remote")
                 /\ fetches[i][k].model = Args(i).model
                 /\ localAvailable[i] =
                       (~fetches[i][1].result.rejected /\ fetches[i][1].result.ok)

C2_Witness ==
    \E i \in Inv :
        /\ IsChat(i) /\ Truthy(Args(i).model) /\ Args(i).prefer = "fast"
        /\ pc[i] = "chat_fetch" /\ ~localAvailable[i]
        /\ fetches[i][2].to = "remote" /\ fetches[i][2].model = "llama3"

\* C3: with no explicit model and preference fast the decision is always
\* {local, local default model}, local up or down, and nothing is probed.
C3_FastAlwaysLocal ==
    \A i \in Inv :
        (IsChat(i) /\ ~Truthy(Args(i).model) /\ Args(i).prefer = "fast")
        => /\ Probes(i) = { }
           /\ ChatFetches(i) = { 1 }
           /\ client[i] = "local" /\ modelToUse[i] = config.DEFAULT_LOCAL_MODEL
           /\ fetches[i][1].to = "local"
           /\ fetches[i][1].model = config.DEFAULT_LOCAL_MODEL

C3_Witness ==
    \E i \in Inv :
        /\ IsChat(i) /\ ~Truthy(Args(i).model) /\ Args(i).prefer = "fast"
        /\ pc[i] = "chat_fetch" /\ ~up["local"] /\ up["remote"] /\ client[i] = "local"

\* C4: with no explicit model and preference smart the decision is always
\* {remote, remote default model}, for every message, local up or down.
C4_SmartAlwaysRemote ==
    \A i \in Inv :
        (IsChat(i) /\ ~Truthy(Args(i).model) /\ Args(i).prefer = "smart")
        => /\ Probes(i) = { }
           /\ ChatFetches(i) = { 1 }
           /\ client[i] = "remote" /\ modelToUse[i] = config.DEFAULT_REMOTE_MODEL
           /\ fetches[i][1].to = "remote"
           /\ fetches[i][1].model = config.DEFAULT_REMOTE_MODEL

C4_Witness ==
    \E i \in Inv :
        /\ IsChat(i) /\ ~Truthy(Args(i).model) /\ Args(i).prefer = "smart"
        /\ Args(i).message = hi /\ up["local"] /\ pc[i] = "chat_fetch"
        /\ client[i] = "remote"

\* C5: when the auto path sends the chat request to remote, the model sent
\* is the remote default if the message is complex and the local default
\* otherwise (medium, or simple with local unavailable).
C5_AutoRemoteModel ==
    \A i \in Inv :
        IsAuto(i)
        => \A k \in ChatFetches(i) :
              fetches[i][k].to = "remote"
              => fetches[i][k].model =
                    (IF estimateComplexity(Args(i).message) = "complex"
                     THEN config.DEFAULT_REMOTE_MODEL ELSE config.DEFAULT_LOCAL_MODEL)

C5_Witness ==
    \E i \in Inv :
        /\ IsAuto(i) /\ estimateComplexity(Args(i).message) = "simple"
        /\ pc[i] = "chat_fetch" /\ ~localAvailable[i]
        /\ fetches[i][2].to = "remote"
        /\ fetches[i][2].model = config.DEFAULT_LOCAL_MODEL

\* a request that did not come back with a success status and a JSON body
Failed(f) == f.result.rejected \/ ~f.result.ok \/ "invalid" \in DOMAIN f.result.data

IsErrorMarked(r) == "isError" \in DOMAIN r /\ r.isError

\* C6: the routing step of chat never fails: whatever the arguments and the
\* probe outcome, it produces exactly one decision, a backend and the
\* explicit model or one of the two default models; only the chat request
\* itself can make the call fail.
C6_RoutingAlwaysDecides ==
    \A i \in Inv :
        IsChat(i)
        => /\ pc[i] \in { "chat_isAvailable", "chat_fetch", "done" }
           /\ pc[i] = "chat_isAvailable"
                => client[i] = NoRoute /\ ChatFetches(i) = { }
           /\ pc[i] \in { "chat_fetch", "done" }
                => /\ client[i] \in Backend
                   /\ modelToUse[i] \in
                         { config.DEFAULT_LOCAL_MODEL, config.DEFAULT_REMOTE_MODEL }
                         \cup (IF Truthy(Args(i).model) THEN { Args(i).model } ELSE { })
                   /\ ChatFetches(i) = { Len(fetches[i]) }
                   /\ LastFetch(i).to = client[i]
                   /\ LastFetch(i).model = modelToUse[i]
           /\ (pc[i] = "done" /\ IsErrorMarked(response[i]))
                => LastFetch(i).settled /\ Failed(LastFetch(i))

C6_Witness ==
    \E i \in Inv :
        /\ IsChat(i) /\ ~Truthy(Args(i).model) /\ Args(i).prefer = "turbo"
        /\ Probes(i) = { 1 } /\ fetches[i][1].result.rejected
        /\ fetches[i][1].result.reason = "The operation was aborted due to timeout"
        /\ pc[i] = "chat_fetch" /\ client[i] = "remote"

\* C7: one chat invocation sends at most one chat request: when the request
\* fails the invocation returns the error and has sent nothing after it,
\* neither a retry nor a failover to the other backend.
C7_AtMostOneChatRequest ==
    \A i \in Inv :
        IsChat(i)
        => /\ Cardinality(ChatFetches(i)) <= 1
           /\ pc[i] = "done"
                => /\ ChatFetches(i) = { Len(fetches[i]) }
                   /\ \A k \in DOMAIN fetches[i] : fetches[i][k].settled
                   /\ Len(fetches[i]) = Cardinality(Probes(i)) + 1

C7_Witness ==
    \E i \in Inv :
        /\ IsChat(i) /\ pc[i] = "done" /\ IsErrorMarked(response[i])
        /\ Len(fetches[i]) = 2 /\ fetches[i][1].result.ok /\ localAvailable[i]
        /\ fetches[i][2].to = "local" /\ fetches[i][2].result.rejected
        /\ up["remote"]

\* C8: chat never raises: when the chat request is rejected (backend
\* unreachable) or answered with a non-success status, the invocation returns
\* the error envelope carrying the error message, never a success response
\* and never an unhandled failure.
C8_ChatFailureIsErrorEnvelope ==
    \A i \in Inv :
        (IsChat(i) /\ pc[i] = "done"
           /\ (LastFetch(i).result.rejected \/ ~LastFetch(i).result.ok))
        => /\ DOMAIN response[i] = { "content", "isError" }
           /\ response[i].isError = TRUE
           /\ Len(response[i].content) = 1
           /\ response[i].content[1].type = "text"
           /\ response[i].content[1].text =
                 "Error: " \o (IF LastFetch(i).result.rejected
                               THEN LastFetch(i).result.reason
                               ELSE "Ollama error: " \o LastFetch(i).result.status
                                    \o " " \o LastFetch(i).result.text)

C8_Witness ==
    \E i \in Inv :
        /\ IsChat(i) /\ pc[i] = "done"
        /\ ~LastFetch(i).result.rejected /\ ~LastFetch(i).result.ok
        /\ response[i].content[1].text = "Error: Ollama error: 500 boom"

KnownTools == { "chat", "generate", "list_models", "health_check" }

\* the two shapes of a response: textual content, or the error-marked one
IsContentResponse(r) ==
    /\ DOMAIN r \in { { "content" }, { "content", "metadata" } }
    /\ Len(r.content) = 1 /\ r.content[1].type = "text"

IsErrorResponse(r) ==
    /\ DOMAIN r = { "content", "isError" }
    /\ r.isError = TRUE
    /\ Len(r.content) = 1 /\ r.content[1].type = "text"

\* C9: no exception crosses the tool boundary: for every tool name and every
\* backend failure the handler returns a response that is either textual
\* content or error-marked, never both, never a thrown error; an unknown tool
\* name gives the error-marked response.
C9_NoExceptionCrossesBoundary ==
    \A i \in Inv :
        pc[i] = "done"
        => /\ IsContentResponse(response[i]) \/ IsErrorResponse(response[i])
           /\ ~(IsContentResponse(response[i]) /\ IsErrorResponse(response[i]))
           /\ "thrown" \notin DOMAIN response[i]
           /\ request[i].name \notin KnownTools => IsErrorResponse(response[i])
           /\ IsErrorResponse(response[i])
                <=> \/ request[i].name \notin KnownTools
                    \/ /\ request[i].name \in { "chat", "generate" }
                       /\ Failed(LastFetch(i))

C9_Witness ==
    \E i \in Inv :
        /\ pc[i] = "done" /\ request[i].name = "restart"
        /\ IsErrorResponse(response[i])
        /\ response[i].content[1].text = "Error: Unknown tool: restart"

\* what the slot of a backend must hold, given how its query came back
SlotHolds(slot, f) ==
    IF Failed(f)
    THEN Len(slot) = 1 /\ DOMAIN slot[1] = { "error" }
    ELSE slot = (IF "models" \in DOMAIN f.result.data THEN f.result.data.models
                 ELSE << >>)

\* C10: list_models always returns a non-error response with one slot per
\* backend: a single error marker where the query failed, the model list
\* where it succeeded; the remote query is made whatever the local one did.
C10_ListModelsPartialResults ==
    \A i \in Inv :
        request[i].name = "list_models"
        => /\ pc[i] \in { "list_local", "list_remote", "done" }
           /\ fetches[i][1].to = "local" /\ fetches[i][1].path = "/api/tags"
           /\ pc[i] # "list_local"
                => /\ Len(fetches[i]) = 2 /\ fetches[i][1].settled
                   /\ fetches[i][2].to = "remote" /\ fetches[i][2].path = "/api/tags"
           /\ pc[i] = "done"
                => /\ IsContentResponse(response[i])
                   /\ ~IsErrorMarked(response[i])
                   /\ DOMAIN response[i].content[1].text.json = Backend
                   /\ SlotHolds(response[i].content[1].text.json.local, fetches[i][1])
                   /\ SlotHolds(response[i].content[1].text.json.remote, fetches[i][2])

C10_Witness ==
    \E i \in Inv :
        /\ request[i].name = "list_models" /\ pc[i] = "done"
        /\ fetches[i][1].result.rejected /\ fetches[i][2].result.ok
        /\ response[i].content[1].text.json =
              [local |-> << [error |-> "fetch failed"] >>,
               remote |-> << [name |-> "qwen2.5:7b"] >>]

\* the probe's tags request completed with a success status
ProbeSucceeded(f) == f.settled /\ ~f.result.rejected /\ f.result.ok

\* C14: the liveness probe never raises: it returns true exactly when its
\* tags request completed with a success status, and false for every other
\* outcome (connection failure, timeout, non-success status); the handler
\* goes on with that boolean.
C14_ProbeNeverRaises ==
    \A i \in Inv :
        /\ (IsChat(i) /\ Probes(i) # { } /\ pc[i] # "chat_isAvailable")
             => /\ localAvailable[i] = ProbeSucceeded(fetches[i][1])
                /\ pc[i] \in { "chat_fetch", "done" } /\ Len(fetches[i]) = 2
        /\ (request[i].name = "health_check" /\ pc[i] # "health_local")
             => /\ results[i].local.available = ProbeSucceeded(fetches[i][1])
                /\ Len(fetches[i]) = 2
        /\ (request[i].name = "health_check" /\ pc[i] = "done")
             => /\ results[i].remote.available = ProbeSucceeded(fetches[i][2])
                /\ IsContentResponse(response[i])

C14_Witness ==
    \E i \in Inv :
        /\ request[i].name = "health_check" /\ pc[i] = "done"
        /\ fetches[i][1].result.ok /\ results[i].local.available
        /\ ~fetches[i][2].result.rejected /\ ~fetches[i][2].result.ok
        /\ ~results[i].remote.available

\* C17: generate always sends its request to the remote backend, whatever
\* the availability of either backend: no routing decision, no probe, no
\* request to local; the model is the given one, or the remote default.
C17_GenerateAlwaysRemote ==
    \A i \in Inv :
        request[i].name = "generate"
        => /\ Len(fetches[i]) = 1
           /\ fetches[i][1].to = "remote" /\ fetches[i][1].path = "/api/generate"
           /\ Probes(i) = { }
           /\ client[i] = NoRoute
           /\ fetches[i][1].model =
                 (IF Truthy(Args(i).model) THEN Args(i).model
                  ELSE config.DEFAULT_REMOTE_MODEL)

C17_Witness ==
    \E i \in Inv :
        /\ request[i].name = "generate" /\ pc[i] = "generate_fetch"
        /\ up["local"] /\ ~up["remote"] /\ Args(i).model = Undefined
        /\ fetches[i][1].to = "remote" /\ fetches[i][1].model = config.DEFAULT_REMOTE_MODEL

\* C20: the messages chat sends are the user message alone when no system
\* prompt is given, and the system message followed by the user message when
\* one is given: length 1 or 2, the last element is the user message with
\* the request's text, no system message after the user message.
C20_MessageSequence ==
    \A i \in Inv :
        IsChat(i)
        => \A k \in ChatFetches(i) :
              LET messages == fetches[i][k].messages
              IN  /\ Len(messages) = (IF Truthy(Args(i).system) THEN 2 ELSE 1)
                  /\ messages[Len(messages)].role = "user"
                  /\ messages[Len(messages)].content = Args(i).message
                  /\ Len(messages) = 2
                       => /\ messages[1].role = "system"
                          /\ messages[1].content = Args(i).system
                  /\ \A j \in DOMAIN messages :
                        messages[j].role = "system" => j < Len(messages)

C20_Witness ==
    \E i \in Inv :
        /\ IsChat(i) /\ pc[i] = "chat_fetch" /\ Args(i).system = "be brief"
        /\ LastFetch(i).messages =
              << [role |-> "system", content |-> "be brief"],
                 [role |-> "user", content |-> Args(i).message] >>

Tiers == { "simple", "medium", "complex" }

MatchesGreeting(text) == Test(SimplePattern, text)

MatchesCodeOrAnalysis(text) == Test(CodePattern, text) \/ Test(AnalysisPattern, text)

\* C18: classify is total and returns exactly one tier, chosen in this
\* order: simple if the text matches the greeting pattern and its word count
\* is below 20; otherwise complex if it matches the code or the analysis
\* pattern or its word count is above 100; otherwise medium.  The word count
\* is the one classify computes.
C18_ClassifyOrder ==
    \A i \in Inv :
        (IsAuto(i) /\ pc[i] # "idle")
        => LET text == Args(i).message
               words == wordCount(text)
           IN  /\ complexity[i] \in Tiers
               /\ complexity[i] = "simple"
                    <=> (MatchesGreeting(text) /\ words < 20)
               /\ complexity[i] = "complex"
                    <=> /\ ~(MatchesGreeting(text) /\ words < 20)
                        /\ MatchesCodeOrAnalysis(text) \/ words > 100
               /\ (MatchesGreeting(text) /\ Test(CodePattern, text))
                    => complexity[i] = (IF words < 20 THEN "simple" ELSE "complex")
               /\ words > 100 => complexity[i] = "complex"

C18_Witness ==
    \E i \in Inv :
        /\ IsAuto(i) /\ pc[i] = "chat_fetch"
        /\ MatchesGreeting(Args(i).message) /\ Test(CodePattern, Args(i).message)
        /\ wordCount(Args(i).message) = 20 /\ complexity[i] = "complex"

\* the whitespace-delimited tokens: the maximal runs of non-whitespace
TokenCount(text) ==
    Cardinality({ k \in DOMAIN text :
                    ~IsSpace(text[k]) /\ (k = 1 \/ IsSpace(text[k - 1])) })

\* C19: for every text, the empty one and those with leading or trailing
\* whitespace included, the word count classify compares against 20 and 100
\* is the number of whitespace-delimited tokens of the text.
C19_WordCountIsTokenCount ==
    \A i \in Inv :
        (IsAuto(i) /\ pc[i] # "idle")
        => wordCount(Args(i).message) = TokenCount(Args(i).message)

----------------------------------------------------------------------------
(* Availability over time *)

\* the probe requests sent to backend b, as <<invocation, position>>
ProbeRequests(b) ==
    UNION { { <<i, k>> : k \in { n \in Probes(i) : fetches[i][n].to = b } } : i \in Inv }

ProbeAt(p) == fetches[p[1]][p[2]]

\* two requests were sent less than the freshness window apart
WithinWindow(f, g) ==
    /\ f.since < MaxAge /\ g.since < MaxAge
    /\ f.since - g.since < FreshnessWindow
    /\ g.since - f.since < FreshnessWindow

\* C11: two isAvailable(b) calls made within the freshness window of each
\* other, from the same or from different invocations, issue at most one
\* probe request to b: no two probe requests to b lie within one window.
C11_OneProbePerWindow ==
    \A b \in Backend :
        \A p, q \in ProbeRequests(b) :
            WithinWindow(ProbeAt(p), ProbeAt(q)) => p = q

\* C13: at every moment at most one liveness probe per backend is outstanding
C13_OneOutstandingProbe ==
    \A b \in Backend :
        Cardinality({ p \in ProbeRequests(b) : ~ProbeAt(p).settled }) <= 1

\* the health object of a health_check response
Reported(i) == response[i].content[1].text.json

\* how long ago a probe resolved
VerdictAge(f) == f.since - f.took

\* the isAvailable results for backend b, and the latest of them
Verdicts(b) == { p \in ProbeRequests(b) : ProbeAt(p).settled }

MostRecent(b) ==
    { p \in Verdicts(b) :
        \A q \in Verdicts(b) : VerdictAge(ProbeAt(p)) <= VerdictAge(ProbeAt(q)) }

HealthReturns(i) == pc[i] = "health_remote" /\ pc'[i] = "done"

\* C16 as stated: when health_check returns, the available flag it reports
\* for each backend is the most recent isAvailable result for that backend,
\* whichever invocation obtained it, and each url is the configured address.
C16_FlagsAreMostRecent ==
    [][\A i \in Inv :
          HealthReturns(i)
          => /\ \A b \in Backend :
                   \E p \in MostRecent(b)' :
                       Reported(i)'[b].available = ProbeSucceeded(ProbeAt(p))'
             /\ Reported(i)'.local.url = config.LOCAL_OLLAMA_HOST
             /\ Reported(i)'.remote.url = config.REMOTE_OLLAMA_HOST]_vars

\* C16, amended: the available flag health_check reports for each backend is
\* the result of the isAvailable call health_check itself made for that
\* backend, local first and then remote, also when other invocations probe
\* the same backend meanwhile; each url is the configured address.
C16_FlagsAreOwnResults ==
    \A i \in Inv :
        (request[i].name = "health_check" /\ pc[i] = "done")
        => /\ Len(fetches[i]) = 2
           /\ fetches[i][1].to = "local" /\ fetches[i][2].to = "remote"
           /\ Reported(i) =
                [local |-> [url |-> config.LOCAL_OLLAMA_HOST,
                            available |-> ProbeSucceeded(fetches[i][1])],
                 remote |-> [url |-> config.REMOTE_OLLAMA_HOST,
                             available |-> ProbeSucceeded(fetches[i][2])]]

C16_Witness ==
    \E i \in Inv :
        /\ request[i].name = "health_check" /\ pc[i] = "done"
        /\ Reported(i).local.url # baseUrl["local"]
        /\ \E p \in Verdicts("local") :
              /\ p[1] # i
              /\ VerdictAge(ProbeAt(p)) < VerdictAge(fetches[i][1])
              /\ ProbeSucceeded(ProbeAt(p)) # Reported(i).local.available

\* a probe of backend b that resolved true no longer than the window ago
FreshTrue(f, b) ==
    /\ f.to = b /\ f.signal /\ ProbeSucceeded(f)
    /\ f.since < MaxAge /\ VerdictAge(f) <= FreshnessWindow

\* C12: whenever a routing decision that consults availability sends the
\* chat to local, and whenever health_check reports a backend available, the
\* verdict is that of a probe of that backend which resolved true no longer
\* than the freshness window before; a decision taken without a verdict
\* goes to local only on the fast path, which asks for none.
C12_FreshVerdict ==
    [][\A i \in Inv :
          /\ (pc[i] = "chat_isAvailable" /\ pc'[i] = "chat_fetch" /\ client'[i] = "local")
                => FreshTrue(fetches'[i][1], "local")
          /\ (pc[i] = "idle" /\ pc'[i] = "chat_fetch" /\ client'[i] = "local")
                => /\ PreferOf(request'[i].arguments) = "fast"
                   /\ ~Truthy(request'[i].arguments.model)
          /\ HealthReturns(i)
                => \A b \in Backend :
                       Reported(i)'[b].available
                       => \E k \in DOMAIN fetches'[i] : FreshTrue(fetches'[i][k], b)]_vars

C12_Witness ==
    \E i \in Inv :
        /\ request[i].name = "health_check" /\ pc[i] = "done"
        /\ Reported(i).local.available /\ Reported(i).remote.available
        /\ VerdictAge(fetches[i][1]) = ProbeTimeout
        /\ fetches[i][1].took = ProbeTimeout

\* an invocation waits for a probe to resolve
AwaitsProbe(i) == pc[i] \in { "chat_isAvailable", "health_local", "health_remote" }

TimeoutReason == "The operation was aborted due to timeout"

\* C15: every liveness probe eventually resolves to a boolean, also when the
\* backend never answers: each wait for a probe ends with the handler going
\* on to its next statement, and a probe ended by the timeout gave false.
C15_ProbeResolves ==
    /\ \A i \in Inv : (pc[i] = "chat_isAvailable") ~> (pc[i] = "chat_fetch")
    /\ \A i \in Inv : (pc[i] = "health_local") ~> (pc[i] = "health_remote")
    /\ \A i \in Inv : (pc[i] = "health_remote") ~> (pc[i] = "done")
    /\ [](\A i \in Inv : \A k \in Probes(i) :
              (fetches[i][k].settled /\ fetches[i][k].result.reason = TimeoutReason)
              => /\ ~ProbeSucceeded(fetches[i][k])
                 /\ fetches[i][k].took = ProbeTimeout
                 /\ IsErrorMarked(response[i])
                      => response[i].content[1].text # "Error: " \o TimeoutReason)

C15_Witness ==
    \E i \in Inv :
        /\ request[i].name = "health_check" /\ pc[i] = "done"
        /\ fetches[i][1].result.reason = TimeoutReason
        /\ fetches[i][2].result.reason = TimeoutReason
        /\ ~Reported(i).local.available /\ ~Reported(i).remote.available

----------------------------------------------------------------------------
(* Responses and client operations *)

\* a chat call came back with a text
ChatSucceeded(i) == IsChat(i) /\ pc[i] = "done" /\ "metadata" \in DOMAIN response[i]

\* C21: on success, the endpoint a chat response reports is the address of
\* the backend that received the chat request, and the model it reports is
\* the model name sent in that request: those of the decision executed.
C21_ReportsExecutedRoute ==
    \A i \in Inv :
        ChatSucceeded(i)
        => /\ LastFetch(i).path = "/api/chat" /\ LastFetch(i).settled
           /\ LastFetch(i).result.ok
           /\ response[i].metadata.endpoint = baseUrl[LastFetch(i).to]
           /\ response[i].metadata.model = LastFetch(i).model
           /\ LastFetch(i).to = client[i] /\ LastFetch(i).model = modelToUse[i]

C21_Witness ==
    \E i \in Inv :
        /\ ChatSucceeded(i) /\ Truthy(Args(i).model)
        /\ LastFetch(i).to = "local"
        /\ response[i].metadata.model = Args(i).model
        /\ response[i].metadata.endpoint # config.LOCAL_OLLAMA_HOST

\* the client operation a request belongs to, applied to what came back
Operation(f) ==
    CASE f.path = "/api/chat" -> chat(f.result)
      [] f.path = "/api/generate" -> generate(f.result)
      [] OTHER -> listModels(f.result)

\* the requests of chat, generate and listModels that have come back
Completed(i) ==
    { k \in DOMAIN fetches[i] : fetches[i][k].settled /\ ~fetches[i][k].signal }

\* C22: chat, generate and listModels return a result only when the backend
\* answered with a success status; a network-level failure makes them fail
\* with its error, a non-success status with an error carrying the status;
\* the handler never gets a text or a list from a failed call.
C22_ResultOnlyOnSuccess ==
    \A i \in Inv : \A k \in Completed(i) :
        LET f == fetches[i][k]
            r == f.result
            o == Operation(f)
        IN  /\ ~o.threw => ~r.rejected /\ r.ok
            /\ r.rejected => o.threw /\ o.message = r.reason
            /\ (~r.rejected /\ ~r.ok)
                 => /\ o.threw
                    /\ o.message = "Ollama error: " \o r.status
                                   \o (IF f.path = "/api/tags" THEN "" ELSE " " \o r.text)
            /\ (o.threw /\ request[i].name \in { "chat", "generate" } /\ pc[i] = "done")
                 => response[i] = Caught(o.message)
            /\ (o.threw /\ request[i].name = "list_models" /\ pc[i] = "done")
                 => response[i].content[1].text.json[f.to] = << [error |-> o.message] >>

C22_Witness ==
    \E i \in Inv :
        /\ request[i].name = "generate" /\ pc[i] = "done"
        /\ ~LastFetch(i).result.rejected /\ ~LastFetch(i).result.ok
        /\ response[i] = Caught("Ollama error: 500 boom")

\* C23: every tool invocation eventually returns a response, content or
\* error, whatever other invocations do meanwhile, provided every chat,
\* generate and list-models request eventually succeeds or fails.
C23_EveryCallReturns ==
    \A i \in Inv :
        (pc[i] # "idle")
        ~> (pc[i] = "done" /\ (IsContentResponse(response[i]) \/ IsErrorResponse(response[i])))

C23_Witness ==
    \E i, j \in Inv :
        /\ i # j /\ pc[i] = "done" /\ pc[j] = "list_remote"
        /\ IsChat(i) /\ IsErrorResponse(response[i])
        /\ LastFetch(i).result.rejected

----------------------------------------------------------------------------
(* Invocations and the state they share *)

\* what the requests of an invocation came back with, in order
Outcomes(i) == [k \in DOMAIN fetches[i] |-> fetches[i][k].result]

\* two finished invocations of the same request against the same backend responses
SameCall(i, j) ==
    /\ pc[i] = "done" /\ pc[j] = "done"
    /\ request[i] = request[j]
    /\ Outcomes(i) = Outcomes(j)

\* C24: no tool invocation changes server-side state: the backend addresses
\* and the default model names stay what they were at process start through
\* every call, successful or failed, and an invocation repeated against the
\* same backend responses gives the same response.
C24_NoServerSideState ==
    /\ [][config' = config /\ baseUrl' = baseUrl]_vars
    /\ [](\A i, j \in Inv : SameCall(i, j) => response[i] = response[j])

C24_Witness ==
    \E i, j \in Inv :
        /\ i # j /\ SameCall(i, j)
        /\ request[i].name = "generate" /\ Truthy(Args(i).model)
        /\ IsContentResponse(response[i]) /\ response[i] = response[j]
        /\ config.DEFAULT_REMOTE_MODEL # Args(i).model

\* what a chat call decides when it runs alone, given its arguments and
\* what its own probe came back with
DecidesAlone(args, probes) ==
    Route(args, IF Len(probes) = 0 THEN FALSE ELSE isAvailable(probes[1]))

\* what a chat call answers when it runs alone, given also what its own
\* chat request came back with
AnswersAlone(args, probes, r) ==
    IF chat(r).threw THEN Caught(chat(r).message)
    ELSE [content |-> << [type |-> "text", text |-> chat(r).value] >>,
          metadata |-> [model |-> DecidesAlone(args, probes).modelToUse,
                        endpoint |-> baseUrl[DecidesAlone(args, probes).client]]]

\* what the probe of an invocation came back with, if it sent one
OwnProbes(i) ==
    IF fetches[i][1].signal THEN << fetches[i][1].result >> ELSE << >>

\* C25: overlapping chat invocations are independent: the routing decision
\* and the response of each are those it would produce alone, a function of
\* its own arguments and of the outcomes of its own probe and chat request,
\* whatever the other invocation is doing.
C25_IndependentInvocations ==
    \A i \in Inv :
        (IsChat(i) /\ pc[i] \in { "chat_fetch", "done" })
        => /\ [client |-> client[i], modelToUse |-> modelToUse[i]]
                = DecidesAlone(Args(i), OwnProbes(i))
           /\ LastFetch(i).to = client[i] /\ LastFetch(i).model = modelToUse[i]
           /\ pc[i] = "done"
                => response[i] = AnswersAlone(Args(i), OwnProbes(i), LastFetch(i).result)

C25_Witness ==
    \E i, j \in Inv :
        /\ i # j /\ IsChat(i) /\ IsChat(j) /\ pc[i] = "done" /\ pc[j] = "done"
        /\ Args(i) = Args(j) /\ Probes(i) = { 1 } /\ Probes(j) = { 1 }
        /\ client[i] = "local" /\ client[j] = "remote"
        /\ IsContentResponse(response[i]) /\ IsErrorResponse(response[j])

\* the step at which a chat call fixes its backend and model
Decides(i) == pc[i] \in { "idle", "chat_isAvailable" } /\ pc'[i] = "chat_fetch"

Decided(i) == IsChat(i) /\ pc[i] \in { "chat_fetch", "done" }

\* C26: the routing decision of chat does not depend on the availability of
\* remote: chat never probes remote; two chat calls with the same request
\* and the same local probe outcome get the same backend and model, whether
\* remote is up or not; with both backends down, a request with an explicit
\* model or on the auto path is still routed to remote.
C26_RemoteAvailabilityIgnored ==
    /\ [](\A i \in Inv : IsChat(i) => \A k \in Probes(i) : fetches[i][k].to = "local")
    /\ [](\A i, j \in Inv :
             (Decided(i) /\ Decided(j) /\ Args(i) = Args(j) /\ OwnProbes(i) = OwnProbes(j))
             => client[i] = client[j] /\ modelToUse[i] = modelToUse[j])
    /\ [][\A i \in Inv :
             (Decides(i) /\ ~up["local"] /\ ~up["remote"]
                /\ (Truthy(request'[i].arguments.model)
                      \/ PreferOf(request'[i].arguments) \notin { "fast", "smart" }))
             => client'[i] = "remote"]_vars

C26_Witness ==
    \E i, j \in Inv :
        /\ i # j /\ pc[i] = "chat_fetch" /\ Decided(j) /\ Args(i) = Args(j)
        /\ IsAuto(i) /\ complexity[i] = "simple"
        /\ ~up["local"] /\ ~up["remote"]
        /\ fetches[i][1].settled /\ fetches[i][1].result.rejected
        /\ OwnProbes(i) = OwnProbes(j)
        /\ client[i] = "remote" /\ client[j] = "remote"

\* C27: one chat invocation issues at most one liveness probe, always to
\* local: exactly one when an explicit model is given, exactly one on the
\* auto path when the message classifies as simple, and none when, with no
\* explicit model, the preference is fast or smart or the message
\* classifies as medium or complex.
C27_ProbesPerChat ==
    \A i \in Inv :
        (IsChat(i) /\ pc[i] # "idle")
        => /\ Cardinality(Probes(i)) <= 1
           /\ \A k \in Probes(i) : k = 1 /\ fetches[i][k].to = "local"
                                   /\ fetches[i][k].path = "/api/tags"
           /\ Truthy(Args(i).model) => Cardinality(Probes(i)) = 1
           /\ (IsAuto(i) /\ complexity[i] = "simple") => Cardinality(Probes(i)) = 1
           /\ (~Truthy(Args(i).model) /\ PreferOf(Args(i)) \in { "fast", "smart" })
                => Probes(i) = { }
           /\ (IsAuto(i) /\ complexity[i] \in { "medium", "complex" })
                => Probes(i) = { }
           /\ { k \in DOMAIN fetches[i] : fetches[i][k].path = "/api/tags" } = Probes(i)

C27_Witness ==
    \E i \in Inv :
        /\ IsAuto(i) /\ pc[i] = "done" /\ complexity[i] = "medium"
        /\ Probes(i) = { } /\ Len(fetches[i]) = 1 /\ client[i] = "remote"
        /\ ~up["local"]

\* the requests of an invocation that have not come back
InFlight(i) == { k \in DOMAIN fetches[i] : ~fetches[i][k].settled }

\* the backends and paths of the requests an invocation has sent, in order
Sent(i) == [k \in DOMAIN fetches[i] |-> << fetches[i][k].to, fetches[i][k].path >>]

\* C28: within one invocation the network calls are strictly sequential:
\* at most one request is in flight, and it is the one sent last; chat sends
\* its chat request only after its probe, if any, has resolved; list_models
\* and health_check call remote only after the local call has resolved.
C28_SequentialRequests ==
    \A i \in Inv :
        /\ Cardinality(InFlight(i)) <= 1
        /\ InFlight(i) \subseteq { Len(fetches[i]) }
        /\ (InFlight(i) = { }) <=> (pc[i] \in { "idle", "done" })
        /\ (IsChat(i) /\ Len(fetches[i]) = 2)
              => /\ fetches[i][1].signal /\ fetches[i][1].settled
                 /\ fetches[i][2].path = "/api/chat"
        /\ (request[i].name \in { "list_models", "health_check" } /\ pc[i] # "idle")
              => /\ Sent(i) \in { << <<"local", "/api/tags">> >>,
                                  << <<"local", "/api/tags">>, <<"remote", "/api/tags">> >> }
                 /\ Len(fetches[i]) = 2 => fetches[i][1].settled
        /\ (request[i].name = "health_check" /\ Len(fetches[i]) = 2
              /\ fetches[i][1].since < MaxAge)
              => fetches[i][2].since <= VerdictAge(fetches[i][1])

C28_Witness ==
    \E i \in Inv :
        /\ request[i].name = "health_check" /\ pc[i] = "health_remote"
        /\ fetches[i][1].settled /\ fetches[i][1].took = ProbeTimeout
        /\ InFlight(i) = { 2 } /\ fetches[i][2].since = ProbeTimeout

\* a chat call with no explicit model whose preference is absent or is
\* neither fast nor smart
OtherPreference(i) ==
    IsChat(i) /\ ~Truthy(Args(i).model) /\ Args(i).prefer \notin { "fast", "smart" }

\* C29: a chat request with no explicit model whose preference is absent,
\* or is any value other than fast and smart, is routed exactly as one with
\* preference auto: same probe, same backend, same model; the routing
\* neither fails nor leaves the backend undecided.
C29_OtherPreferencesAreAuto ==
    \A i \in Inv :
        (OtherPreference(i) /\ pc[i] # "idle")
        => LET asAuto == [Args(i) EXCEPT !.prefer = "auto"]
           IN  /\ Probes(i) = (IF AwaitsIsAvailable(asAuto) THEN { 1 } ELSE { })
               /\ pc[i] \in { "chat_isAvailable", "chat_fetch", "done" }
               /\ pc[i] = "chat_isAvailable" <=> (Probes(i) = { 1 } /\ ~fetches[i][1].settled)
               /\ pc[i] \in { "chat_fetch", "done" }
                    => /\ client[i] \in Backend
                       /\ [client |-> client[i], modelToUse |-> modelToUse[i]]
                            = RouteAuto(estimateComplexity(Args(i).message),
                                        Probes(i) # { } /\ ProbeSucceeded(fetches[i][1]))
                       /\ [client |-> client[i], modelToUse |-> modelToUse[i]]
                            = DecidesAlone(asAuto, OwnProbes(i))
               /\ (pc[i] = "done" /\ IsErrorResponse(response[i]))
                    => Failed(LastFetch(i))

C29_Witness ==
    \E i \in Inv :
        /\ OtherPreference(i) /\ Args(i).prefer = "turbo" /\ pc[i] = "done"
        /\ complexity[i] = "simple" /\ client[i] = "local"
        /\ IsContentResponse(response[i])

====
